---- MODULE Spec2Model ----
(***************************************************************************)
(* Ride-dispatch core of the dropme backend: the socket handlers of the   *)
(* server (src/unnamed/part_001, src/index.js, src/test.js) and the HTTP  *)
(* routes of src/rides.js, over the tables of the backing store.          *)
(*                                                                         *)
(* Every handler is an async function: it runs to its next `await` (a     *)
(* store call) in one step, and the store serves the calls of all the     *)
(* handlers in flight in any order.  One action of the model is one store *)
(* call of one handler together with the code that follows it up to the   *)
(* next store call (the emit, the response).                              *)
(*                                                                         *)
(* The source holds several variants of the server file.  One process     *)
(* runs one of them: part_001 (the fullest), index (index.js from line    *)
(* 136), index96 (index.js up to line 135), test (test.js) and part_000  *)
(* (the earliest, with one handler).  The routes of rides.js are mounted  *)
(* by all of them.                                                         *)
(***************************************************************************)
EXTENDS Integers, Sequences, FiniteSets, TLC

VARIABLES
    server,     \* which variant of the server file runs: it never changes
    requests,   \* table ride_requests: sequence of rows, the index is the id
    rides,      \* table rides: sequence of rows, the index is the id
    vehicles,   \* table vehicles: the ride type of each driver's active vehicle
    calls,      \* the handler invocations so far, in flight or finished
    locations,  \* table user_locations: one row per user id, or NoRow
    drivers,    \* table drivers: presence status per driver id, or NoRow
    now,        \* the wall clock, in minutes
    sockets,    \* the connections that are open, each named after its user
    rooms,      \* the rooms of the socket server: records [sock, room]
    delivered,  \* the room and broadcast events sent so far, with their receivers
    messages,   \* table messages: the chat of each row, the index is the id
    feed,       \* the inserts of messages the change feed has yet to announce
    transactions, \* table transactions: one row per payment_ref, or NoRow
    wallets     \* table wallets: the balance per user id, or NoRow

vars == <<server, requests, rides, vehicles, calls, locations, drivers, now,
          sockets, rooms, delivered, messages, feed, transactions, wallets>>

-----------------------------------------------------------------------------
(* Bounds of the model *)

MaxCalls == 3       \* handler invocations in one behaviour of the registry
MaxGeoCalls == 2    \* handler invocations in one behaviour of the positions
MaxRequests == 1    \* rows of ride_requests
MaxRides == 1       \* rows of rides
MaxClock == 6       \* minutes the clock may advance to
ClockStep == 3      \* minutes between two readings of the clock

(* Identifiers *)

Drivers == {"d1", "d2"}
Riders == {"u1"}
Users == Drivers \cup Riders
RideTypes == {"standard", "premium"}
Null == "null"
Undefined == "undefined"
NoRow == "norow"

ReqIds == 1..MaxRequests

\* the users whose payments the model follows, and their payment references
PayRefs == {"p1", "p2"}

\* no transaction stored for a payment reference, no wallet for a user
NoTransaction == [user_id |-> NoRow, status |-> NoRow, amount |-> 0]
NoWallet == [user_id |-> NoRow, balance |-> 0]

\* no payment under way: no transaction, no wallet
NoPayments ==
    /\ transactions = [p \in PayRefs |-> NoTransaction]
    /\ wallets = [u \in Riders |-> NoWallet]

-----------------------------------------------------------------------------
(* Rows *)

\* the row newRideRequest inserts
PendingRequest(rider, rideType) ==
    [rider_id |-> rider, driver_id |-> Null, status |-> "pending", ridetype |-> rideType]

\* one invocation of a handler: its arguments, where it stands, what it emitted
\* (emit: the socket event it sent, `to` whom; http: the status of its HTTP
\* response), when the server rejected it, why, what its first read saw, whether
\* it changed the store, for newRideRequest whether its payload was
\* well-formed, and for the location handlers the coordinates, the time the
\* handler read from the clock and the rows of the nearbyDrivers event, and
\* for the presence and chat handlers the connection the event came in on
NewCall(op, req, rider, drv, arg) ==
    [op |-> op, req |-> req, rider |-> rider, drv |-> drv, arg |-> arg,
     pc |-> "start", emit |-> "none", to |-> "none", http |-> "none",
     why |-> "none", seen |-> "none", wrote |-> FALSE, data |-> "none",
     lat |-> 0, lng |-> 0, ts |-> 0, result |-> << >>, sock |-> "none"]

Finish(c, emit, to, why) ==
    [c EXCEPT !.pc = "done", !.emit = emit, !.to = to, !.why = why]

CallIds == 1..Len(calls)
CanStart == Len(calls) < MaxCalls
InFlight(i, op, pc) == i \in CallIds /\ calls[i].op = op /\ calls[i].pc = pc

\* the rows of ride_requests a filter selects
Exists(r) == r \in 1..Len(requests)
StatusOf(r) == IF Exists(r) THEN requests[r].status ELSE NoRow
DriverOf(r) == IF Exists(r) THEN requests[r].driver_id ELSE NoRow

\* the ride requests a filter on rider_id and status selects
RowsOfRider(rider, status) ==
    {r \in 1..Len(requests) : requests[r].rider_id = rider /\ requests[r].status = status}

\* .update(fields) on the one row r
SetRequest(r, status, driver) ==
    [requests EXCEPT ![r] = [@ EXCEPT !.status = status, !.driver_id = driver]]
SetStatus(r, status) ==
    [requests EXCEPT ![r] = [@ EXCEPT !.status = status]]

UnchangedChat == UNCHANGED <<sockets, rooms, delivered, messages, feed>>

UnchangedPayments == UNCHANGED <<transactions, wallets>>

UnchangedGeo ==
    UNCHANGED <<server, locations, drivers, now>> /\ UnchangedChat /\ UnchangedPayments

-----------------------------------------------------------------------------
(* newRideRequest *)

\* JavaScript values of the event payload: typeof and the value
Num(n) == [type |-> "number", v |-> n]
Undef == [type |-> "undefined", v |-> 0]
Obj == [type |-> "object", v |-> 1]
Str == [type |-> "string", v |-> 1]

CostInputs == {Undef, Num(-5), Num(0), Num(25)}
DistanceInputs == {Undef, Num(-3), Num(1200)}
PlaceInputs == {Undef, Obj}

\* JavaScript's !x
Falsy(x) == x.type = "undefined" \/ (x.type = "number" /\ x.v = 0)

\* the checks of newRideRequest that throw before the insert
InvalidRideData(riderId, rideType, distance, cost, pickup, dropoff) ==
    \/ Falsy(riderId) \/ Falsy(rideType) \/ Falsy(distance) \/ Falsy(cost)
    \/ Falsy(pickup) \/ Falsy(dropoff)
    \/ cost.type # "number" \/ cost.v <= 0
    \/ distance.type # "number" \/ distance.v <= 0
    \/ pickup.type # "object" \/ dropoff.type # "object"

\* what is recorded of a payload: whether pickup, dropoff and fare are there
\* and fare and distance are positive numbers
RideData(distance, cost, pickup, dropoff) ==
    IF /\ pickup.type = "object" /\ dropoff.type = "object"
       /\ cost.type = "number" /\ cost.v > 0
       /\ distance.type = "number" /\ distance.v > 0
    THEN "wellformed" ELSE "malformed"

\* socket.on('newRideRequest') of part_001: validate, insert, broadcast
newRideRequest ==
    /\ server = "part_001"
    /\ CanStart
    /\ \E rider \in Riders, rideType \in RideTypes, distance \in DistanceInputs,
          cost \in CostInputs, pickup \in PlaceInputs, dropoff \in PlaceInputs,
          fail \in BOOLEAN :
         LET c == [NewCall("newRideRequest", Len(requests) + 1, rider, Null, Null)
                     EXCEPT !.data = RideData(distance, cost, pickup, dropoff)]
         IN  IF InvalidRideData(Str, Str, distance, cost, pickup, dropoff)
             THEN /\ calls' = Append(calls, Finish(c, "error", "caller", "invalid"))
                  /\ UNCHANGED requests
             ELSE IF fail
             THEN /\ calls' = Append(calls, Finish(c, "error", "caller", "store"))
                  /\ UNCHANGED requests
             ELSE /\ Len(requests) < MaxRequests
                  /\ requests' = Append(requests, PendingRequest(rider, rideType))
                  /\ calls' = Append(calls,
                        [Finish(c, "rideRequest", "all", "none") EXCEPT !.wrote = TRUE])
    /\ UNCHANGED <<rides, vehicles>>
    /\ UnchangedGeo

\* socket.on('newRideRequest') of index.js: no validation, defaults for the
\* missing fields (fare 25, a fixed pickup and dropoff), a store error is only
\* logged
newRideRequest_index ==
    /\ server = "index"
    /\ CanStart
    /\ \E rider \in Riders, rideType \in RideTypes, distance \in DistanceInputs,
          cost \in CostInputs, pickup \in PlaceInputs, dropoff \in PlaceInputs,
          fail \in BOOLEAN :
         LET c == [NewCall("newRideRequest_index", Len(requests) + 1, rider, Null, Null)
                     EXCEPT !.data = RideData(distance, cost, pickup, dropoff)]
         IN  IF fail
             THEN /\ calls' = Append(calls, Finish(c, "none", "none", "store"))
                  /\ UNCHANGED requests
             ELSE /\ Len(requests) < MaxRequests
                  /\ requests' = Append(requests, PendingRequest(rider, rideType))
                  /\ calls' = Append(calls,
                        [Finish(c, "rideRequest", "all", "none") EXCEPT !.wrote = TRUE])
    /\ UNCHANGED <<rides, vehicles>>
    /\ UnchangedGeo

-----------------------------------------------------------------------------
(* acceptRide of part_001: fetch the pending request, then a guarded update *)

\* the filter of the fetch: .eq("id", requestId).eq("status", "pending")
acceptRide_fetchFilter(r) == StatusOf(r) = "pending"
\* the update of acceptRide without its status guard
acceptRide_updateFilter_unguarded(r) == Exists(r)

\* the filter of the update: .eq("id", requestId).eq("status", "pending")
acceptRide_updateFilter(r) == StatusOf(r) = "pending"

acceptRide_fetch ==
    /\ server = "part_001"
    /\ CanStart
    /\ \E d \in Drivers, r \in ReqIds, fail \in BOOLEAN :
         LET c == NewCall("acceptRide", r, Null, d, Null)
         IN  calls' = Append(calls,
                 IF fail THEN Finish(c, "error", "caller", "store")
                 ELSE IF ~acceptRide_fetchFilter(r) THEN Finish(c, "error", "caller", "norow")
                 ELSE [c EXCEPT !.pc = "update", !.seen = "pending"])
    /\ UNCHANGED <<requests, rides, vehicles>>
    /\ UnchangedGeo

\* .update({driver_id, status: accepted}).eq(id).eq(status, pending).select().single()
acceptRide_update ==
    /\ \E i \in CallIds, fail \in BOOLEAN :
         /\ InFlight(i, "acceptRide", "update")
         /\ LET c == calls[i]
            IN  IF fail
                THEN /\ calls' = [calls EXCEPT ![i] = Finish(c, "error", "caller", "store")]
                     /\ UNCHANGED requests
                ELSE IF ~acceptRide_updateFilter(c.req)
                THEN /\ calls' = [calls EXCEPT ![i] = Finish(c, "error", "caller", "norow")]
                     /\ UNCHANGED requests
                ELSE /\ requests' = SetRequest(c.req, "accepted", c.drv)
                     /\ calls' = [calls EXCEPT ![i] =
                           [Finish(c, "tripUpdate", "all", "none") EXCEPT !.wrote = TRUE,
                                                                         !.arg = "accepted"]]
    /\ UNCHANGED <<rides, vehicles>>
    /\ UnchangedGeo

-----------------------------------------------------------------------------
(* confirmRide of part_001: fetch the request accepted by this driver, then  *)
(* an update guarded by the status alone                                     *)

\* .eq("id", requestId).eq("status", "accepted").eq("driver_id", driverId)
confirmRide_fetchFilter(r, d) == StatusOf(r) = "accepted" /\ DriverOf(r) = d
\* .eq("id", requestId).eq("status", "accepted")
confirmRide_updateFilter(r, d) == StatusOf(r) = "accepted"

confirmRide_fetch ==
    /\ server = "part_001"
    /\ CanStart
    /\ \E d \in Drivers, r \in ReqIds, fail \in BOOLEAN :
         LET c == NewCall("confirmRide", r, Null, d, Null)
         IN  calls' = Append(calls,
                 IF fail THEN Finish(c, "error", "caller", "store")
                 ELSE IF ~confirmRide_fetchFilter(r, d)
                      THEN Finish(c, "error", "caller", "norow")
                 ELSE [c EXCEPT !.pc = "update", !.seen = "accepted"])
    /\ UNCHANGED <<requests, rides, vehicles>>
    /\ UnchangedGeo

confirmRide_update ==
    /\ \E i \in CallIds, fail \in BOOLEAN :
         /\ InFlight(i, "confirmRide", "update")
         /\ LET c == calls[i]
            IN  IF fail
                THEN /\ calls' = [calls EXCEPT ![i] = Finish(c, "error", "caller", "store")]
                     /\ UNCHANGED requests
                ELSE IF ~confirmRide_updateFilter(c.req, c.drv)
                THEN /\ calls' = [calls EXCEPT ![i] = Finish(c, "error", "caller", "norow")]
                     /\ UNCHANGED requests
                ELSE /\ requests' = SetStatus(c.req, "confirmed")
                     /\ calls' = [calls EXCEPT ![i] =
                           [Finish(c, "tripUpdate", "all", "none") EXCEPT !.wrote = TRUE,
                                                                         !.arg = "confirmed"]]
    /\ UNCHANGED <<rides, vehicles>>
    /\ UnchangedGeo

-----------------------------------------------------------------------------
(* declineRide and cancelRide (ride_requests) of part_001: one update by id *)

IdInputs == Drivers \cup {Undefined}

\* .update({status: 'declined'}).eq('id', requestId): no filter on the status
declineRide_filter(r) == Exists(r)
\* .update({status: "canceled", ...}).eq("id", requestId): no filter on the status
cancelRide_filter(r) == Exists(r)

\* how declineRide ends: part_001 answers the caller, index.js only logs
DeclineEnd(c, ok, why) ==
    IF server = "part_001"
    THEN Finish(c, IF ok THEN "rideDeclined" ELSE "error", "caller", why)
    ELSE Finish(c, "none", "none", why)

declineRide ==
    /\ server \in {"part_001", "index"}
    /\ CanStart
    /\ \E d \in IdInputs, r \in ReqIds, fail \in BOOLEAN :
         LET c == NewCall("declineRide", r, Null, d, Null)
         IN  IF d = Undefined
             THEN /\ calls' = Append(calls, DeclineEnd(c, FALSE, "invalid"))
                  /\ UNCHANGED requests
             ELSE IF fail
             THEN /\ calls' = Append(calls, DeclineEnd(c, FALSE, "store"))
                  /\ UNCHANGED requests
             ELSE IF ~declineRide_filter(r)
             THEN \* no row matched: the update reports no error
                  /\ calls' = Append(calls, DeclineEnd(c, TRUE, "norow"))
                  /\ UNCHANGED requests
             ELSE /\ requests' = SetStatus(r, "declined")
                  /\ calls' = Append(calls,
                        [DeclineEnd(c, TRUE, "none")
                            EXCEPT !.wrote = TRUE, !.seen = StatusOf(r)])
    /\ UNCHANGED <<rides, vehicles>>
    /\ UnchangedGeo

\* how the handler ends for the request id r: a store error is thrown and
\* caught, else rideUpdate goes to everybody whether or not a row matched
cancelRide_requestEnd(c, r, fail) ==
    IF fail THEN Finish(c, "error", "caller", "store")
    ELSE IF ~cancelRide_filter(r) THEN Finish(c, "rideUpdate", "all", "norow")
    ELSE [Finish(c, "rideUpdate", "all", "none")
             EXCEPT !.wrote = TRUE, !.seen = StatusOf(r)]

\* the table after the handler's update
cancelRide_requestStore(r, fail) ==
    IF ~fail /\ cancelRide_filter(r) THEN SetStatus(r, "canceled") ELSE requests

cancelRide_request ==
    /\ server = "part_001"
    /\ CanStart
    /\ \E r \in ReqIds, fail \in BOOLEAN :
         LET c == NewCall("cancelRide", r, Null, Null, Null)
         IN  /\ calls' = Append(calls, cancelRide_requestEnd(c, r, fail))
             /\ requests' = cancelRide_requestStore(r, fail)
    /\ UNCHANGED <<rides, vehicles>>
    /\ UnchangedGeo

-----------------------------------------------------------------------------
(* tripUpdate sent by a client (part_001): the pending request of the rider *)
(* is fetched, the driver's active vehicle is checked against its ride      *)
(* type, and the client's status and driver_id are written to the rider's   *)
(* pending request                                                          *)

TripStatuses == {"accepted", "pending", "completed"}

\* .eq("driver_id", driver_id).eq("status", "active").single() and the
\* comparison of the ride types
VehicleMatches(d, rideType) == vehicles[d] # NoRow /\ vehicles[d] = rideType

\* the vehicles table is never written by a handler, so its read right
\* after the read of ride_requests is taken in the same step
tripUpdate_fetch ==
    /\ server = "part_001"
    /\ CanStart
    /\ \E rider \in Riders, d \in Drivers, status \in TripStatuses, fail \in BOOLEAN :
         LET c == NewCall("tripUpdate", 0, rider, d, status)
             rows == RowsOfRider(rider, "pending")
         IN  calls' = Append(calls,
                 IF fail THEN Finish(c, "error", "caller", "store")
                 ELSE IF Cardinality(rows) # 1 THEN Finish(c, "error", "caller", "norow")
                 ELSE IF ~VehicleMatches(d, requests[CHOOSE r \in rows : TRUE].ridetype)
                      THEN Finish(c, "error", "caller", "invalid")
                 ELSE [c EXCEPT !.pc = "update", !.seen = "pending"])
    /\ UNCHANGED <<requests, rides, vehicles>>
    /\ UnchangedGeo

\* .update({status, driver_id}).eq("rider_id", rider_id).eq("status", "pending")
\* .select().single(): anything but one row is an error and changes nothing.
\* The read of the driver's users row follows; when it fails the handler
\* reports an error after the update was applied.
tripUpdate_update ==
    /\ \E i \in CallIds, fail \in BOOLEAN, failUser \in BOOLEAN :
         /\ InFlight(i, "tripUpdate", "update")
         /\ LET c == calls[i]
                rows == RowsOfRider(c.rider, "pending")
            IN  IF fail
                THEN /\ calls' = [calls EXCEPT ![i] = Finish(c, "error", "caller", "store")]
                     /\ UNCHANGED requests
                ELSE IF Cardinality(rows) # 1
                THEN /\ calls' = [calls EXCEPT ![i] = Finish(c, "error", "caller", "norow")]
                     /\ UNCHANGED requests
                ELSE LET r == CHOOSE x \in rows : TRUE
                     IN  /\ requests' = SetRequest(r, c.arg, c.drv)
                         /\ calls' = [calls EXCEPT ![i] =
                              [(IF failUser THEN Finish(c, "error", "caller", "store")
                                ELSE Finish(c, "tripUpdate", "all", "none"))
                                 EXCEPT !.wrote = TRUE, !.req = r]]
    /\ UNCHANGED <<rides, vehicles>>
    /\ UnchangedGeo

-----------------------------------------------------------------------------
(* POST /rides/confirm of rides.js, called over HTTP or by the acceptRide   *)
(* handler of index.js: fetch the pending request, update it by id, insert  *)
(* a ride                                                                   *)

\* .eq('id', requestId).eq('status', 'pending').single()
confirm_fetchFilter(r) == StatusOf(r) = "pending"
\* .update({status: 'accepted', driver_id}).eq('id', requestId)
confirm_updateFilter(r) == Exists(r)

\* the response of /confirm, and what acceptRide of index.js makes of it:
\* a tripUpdate broadcast when it is ok, a log line (nothing sent) otherwise
Respond(c, ok, why) ==
    [(IF c.op = "acceptRide_index"
      THEN IF ok THEN [Finish(c, "tripUpdate", "all", why) EXCEPT !.arg = "accepted"]
                 ELSE Finish(c, "none", "none", why)
      ELSE Finish(c, "none", "none", why))
       EXCEPT !.http = IF ok THEN "200" ELSE "400"]

confirm_fetch ==
    /\ CanStart
    /\ \E op \in {"postConfirm", "acceptRide_index"}, d \in IdInputs, r \in ReqIds,
          fail \in BOOLEAN :
         /\ op = "acceptRide_index" => server = "index"
         /\ LET c == NewCall(op, r, Null, d, Null)
           IN  calls' = Append(calls,
                 IF d = Undefined THEN
                     \* acceptRide of index.js throws before it calls /confirm
                     IF op = "acceptRide_index" THEN Finish(c, "none", "none", "invalid")
                     ELSE Respond(c, FALSE, "invalid")
                 ELSE IF fail THEN Respond(c, FALSE, "store")
                 ELSE IF ~confirm_fetchFilter(r) THEN Respond(c, FALSE, "norow")
                 ELSE [c EXCEPT !.pc = "update", !.seen = "pending",
                                !.rider = requests[r].rider_id])
    /\ UNCHANGED <<requests, rides, vehicles>>
    /\ UnchangedGeo

confirm_update ==
    /\ \E i \in CallIds, fail \in BOOLEAN :
         /\ i \in CallIds
         /\ calls[i].op \in {"postConfirm", "acceptRide_index"}
         /\ calls[i].pc = "update"
         /\ LET c == calls[i]
            IN  IF fail
                THEN /\ calls' = [calls EXCEPT ![i] = Respond(c, FALSE, "store")]
                     /\ UNCHANGED requests
                ELSE /\ requests' = IF confirm_updateFilter(c.req)
                                    THEN SetRequest(c.req, "accepted", c.drv)
                                    ELSE requests
                     /\ calls' = [calls EXCEPT ![i] =
                                    [c EXCEPT !.pc = "insert", !.wrote = TRUE]]
    /\ UNCHANGED <<rides, vehicles>>
    /\ UnchangedGeo

\* the ride /confirm inserts; `request` is not a column: it records which
\* request the ride was made for
RideOf(c) ==
    [rider_id |-> c.rider, driver_id |-> c.drv, status |-> "accepted", request |-> c.req]

confirm_insert ==
    /\ \E i \in CallIds, fail \in BOOLEAN :
         /\ i \in CallIds
         /\ calls[i].op \in {"postConfirm", "acceptRide_index"}
         /\ calls[i].pc = "insert"
         /\ LET c == calls[i]
            IN  IF fail
                THEN /\ calls' = [calls EXCEPT ![i] = Respond(c, FALSE, "store")]
                     /\ UNCHANGED rides
                ELSE /\ Len(rides) < MaxCalls
                     /\ rides' = Append(rides, RideOf(c))
                     /\ calls' = [calls EXCEPT ![i] = Respond(c, TRUE, "none")]
    /\ UNCHANGED <<requests, vehicles>>
    /\ UnchangedGeo

-----------------------------------------------------------------------------
(* POST /rides/request and POST /rides/accept of rides.js, on the rides table *)

RideExists(k) == k \in 1..Len(rides)
RideStatus(k) == IF RideExists(k) THEN rides[k].status ELSE NoRow
RideIds == 1..MaxRides

\* the insert names no status: the column's default, 'requested', is what
\* /accept filters on
postRequest ==
    /\ CanStart
    /\ \E rider \in Riders, fail \in BOOLEAN :
         LET c == NewCall("postRequest", Len(rides) + 1, rider, Null, Null)
         IN  IF fail
             THEN /\ calls' = Append(calls, [Finish(c, "none", "none", "store")
                                               EXCEPT !.http = "400"])
                  /\ UNCHANGED rides
             ELSE /\ Len(rides) < MaxRides
                  /\ rides' = Append(rides, [rider_id |-> rider, driver_id |-> Null,
                                             status |-> "requested", request |-> 0])
                  /\ calls' = Append(calls, [Finish(c, "rideRequest", "drivers", "none")
                                               EXCEPT !.http = "201", !.wrote = TRUE])
    /\ UNCHANGED <<requests, vehicles>>
    /\ UnchangedGeo

\* .update({driver_id, status: 'accepted'}).eq('id', rideId).eq('status', 'requested')
postAccept_filter(k) == RideStatus(k) = "requested"

postAccept ==
    /\ CanStart
    /\ \E d \in Drivers, k \in RideIds, fail \in BOOLEAN :
         LET c == NewCall("postAccept", k, Null, d, Null)
         IN  IF fail
             THEN /\ calls' = Append(calls, [Finish(c, "none", "none", "store")
                                               EXCEPT !.http = "400"])
                  /\ UNCHANGED rides
             ELSE IF ~postAccept_filter(k)
             THEN /\ calls' = Append(calls, [Finish(c, "none", "none", "norow")
                                               EXCEPT !.http = "400", !.seen = RideStatus(k)])
                  /\ UNCHANGED rides
             ELSE /\ rides' = [rides EXCEPT ![k] =
                                 [@ EXCEPT !.driver_id = d, !.status = "accepted"]]
                  /\ calls' = Append(calls, [Finish(c, "rideAccepted", "rider", "none")
                                               EXCEPT !.http = "200", !.wrote = TRUE,
                                                      !.seen = "requested"])
    /\ UNCHANGED <<requests, vehicles>>
    /\ UnchangedGeo

-----------------------------------------------------------------------------
(* The ride-request registry *)

\* both connections open, no room joined, no message
NoChat ==
    /\ sockets = {"u1", "d1"}
    /\ rooms = {}
    /\ delivered = << >>
    /\ messages = << >>
    /\ feed = {}

StandardVehicles == [d \in Drivers |-> "standard"]

\* a driver's position stored at time 0
DriverAtOrigin == [lat |-> 0, lng |-> 0, role |-> "driver", updated_at |-> 0]
\* no position stored for a user
NoLocation == [lat |-> 0, lng |-> 0, role |-> NoRow, updated_at |-> 0]

Init ==
    /\ server \in {"part_001", "index"}
    /\ requests \in {<< >>, <<PendingRequest("u1", "standard")>>}
    /\ rides = << >>
    /\ vehicles = StandardVehicles
    /\ calls = << >>
    /\ locations = [u \in Users |-> NoLocation]
    /\ drivers = [d \in Drivers |-> NoRow]
    /\ now = 0
    /\ NoPayments
    /\ NoChat

Next ==
    \/ newRideRequest
    \/ newRideRequest_index
    \/ acceptRide_fetch
    \/ acceptRide_update
    \/ confirmRide_fetch
    \/ confirmRide_update
    \/ declineRide
    \/ cancelRide_request
    \/ tripUpdate_fetch
    \/ tripUpdate_update
    \/ confirm_fetch
    \/ confirm_update
    \/ confirm_insert
    \/ postRequest
    \/ postAccept

Spec == Init /\ [][Next]_vars

-----------------------------------------------------------------------------
(* Positions: the table user_locations.  Coordinates are in hundredths of  *)
(* a degree, the clock in minutes.                                          *)

StaleMinutes == 5
TableRadius == 10000
RpcRadius == 5000

\* undefined, the origin, 0.06 degrees (about 6.7 km: inside the radius of
\* the table queries, outside that of the procedure) and 91 degrees
LatInputs == {Undef, Num(0), Num(6), Num(9100)}
LngInputs == {Num(0)}
RoleInputs == {"driver", "rider", "admin"}
UserInputs == Users \cup {Undefined}

\* isNaN(x) of a payload field
IsNaN(x) == x.type # "number"

Abs(n) == IF n < 0 THEN -n ELSE n

\* the distance in meters the store computes between two points (st_distance
\* in the table queries, the distance of the nearby_drivers procedure): a
\* hundredth of a degree is about 1111 m
DistanceMeters(lat1, lng1, lat2, lng2) ==
    1111 * (Abs(lat1 - lat2) + Abs(lng1 - lng2))

\* role === 'driver' || role === 'rider' ? role : 'rider'
ValidRole(role) == IF role \in {"driver", "rider"} THEN role ELSE "rider"

\* an upsert that leaves the role of an existing row as it was
Upsert_keepRole(user, lat, lng, role, ts) ==
    [locations EXCEPT ![user] =
        [lat |-> lat, lng |-> lng, updated_at |-> ts,
         role |-> IF locations[user].role # NoRow THEN locations[user].role ELSE role]]

\* .upsert({user_id, location, role, updated_at}, {onConflict: 'user_id'})
Upsert(user, lat, lng, role, ts) ==
    [locations EXCEPT ![user] = [lat |-> lat, lng |-> lng, role |-> role, updated_at |-> ts]]

HasRow(u) == locations[u].role # NoRow

\* the row of the nearbyDrivers event for user u, seen from (lat, lng) at
\* time t; age is not a column: it records how old the position was
ResultRow(u, lat, lng, t) ==
    [user_id |-> u, role |-> locations[u].role, age |-> t - locations[u].updated_at,
     distance |-> DistanceMeters(locations[u].lat, locations[u].lng, lat, lng)]

\* the query of test.js without its role filter
NearbyQuery_test_anyRole(riderId, lat, lng, t) ==
    {u \in Users : /\ HasRow(u)
                   /\ u # riderId
                   /\ locations[u].updated_at > t - StaleMinutes
                   /\ DistanceMeters(locations[u].lat, locations[u].lng, lat, lng)
                        <= TableRadius}

\* requestNearbyDrivers of test.js: role driver, not the rider, updated in the
\* last five minutes, within 10 km
NearbyQuery_test(riderId, lat, lng, t) ==
    {u \in Users : /\ HasRow(u)
                   /\ locations[u].role = "driver"
                   /\ u # riderId
                   /\ locations[u].updated_at > t - StaleMinutes
                   /\ DistanceMeters(locations[u].lat, locations[u].lng, lat, lng)
                        <= TableRadius}

\* requestNearbyDrivers of index.js (line 96): as above with .lt on updated_at
NearbyQuery_index(riderId, lat, lng, t) ==
    {u \in Users : /\ HasRow(u)
                   /\ locations[u].role = "driver"
                   /\ u # riderId
                   /\ locations[u].updated_at < t - StaleMinutes
                   /\ DistanceMeters(locations[u].lat, locations[u].lng, lat, lng)
                        <= TableRadius}

\* the stored procedure nearby_drivers(lat, lng, max_distance[, rider_id]):
\* the drivers within max_distance whose position is not older than five
\* minutes, without the rider when one is named
nearby_drivers(lat, lng, max_distance, rider_id, t) ==
    {u \in Users : /\ HasRow(u)
                   /\ locations[u].role = "driver"
                   /\ u # rider_id
                   /\ locations[u].updated_at >= t - StaleMinutes
                   /\ DistanceMeters(locations[u].lat, locations[u].lng, lat, lng)
                        <= max_distance}

\* the orders in which the store may return a set of rows
Orderings(S) ==
    {q \in [1..Cardinality(S) -> S] : \A i, j \in 1..Cardinality(S) : i # j => q[i] # q[j]}

\* the procedure returns its rows by ascending distance
ByDistance(S, lat, lng) ==
    {q \in Orderings(S) :
        \A i, j \in 1..Cardinality(S) :
            i < j => ResultRow(q[i], lat, lng, 0).distance
                       <= ResultRow(q[j], lat, lng, 0).distance}

NearbyVariants == {"test", "index96", "index", "part_001"}

\* the rows a requestNearbyDrivers handler of variant v may get from its query
NearbyAnswers(v, riderId, lat, lng, t) ==
    CASE v = "test" -> Orderings(NearbyQuery_test(riderId, lat, lng, t))
      [] v = "index96" -> Orderings(NearbyQuery_index(riderId, lat, lng, t))
      [] v = "index" -> ByDistance(nearby_drivers(lat, lng, RpcRadius, Null, t), lat, lng)
      [] v = "part_001" -> ByDistance(nearby_drivers(lat, lng, RpcRadius, riderId, t), lat, lng)

UnchangedRegistry ==
    UNCHANGED <<server, requests, rides, vehicles>> /\ UnchangedChat /\ UnchangedPayments

CanStartGeo == Len(calls) < MaxGeoCalls

Tick ==
    /\ now + ClockStep <= MaxClock
    /\ now' = now + ClockStep
    /\ UNCHANGED <<calls, locations, drivers>>
    /\ UnchangedRegistry

\* updateLocation of test.js, index.js (line 393) and part_001: validate,
\* build the row with the time read from the clock, then upsert; every error
\* is only logged.  index.js line 58 does not validate: the store refuses
\* the row it builds from such a payload, and that error is only logged too.
updateLocation_start ==
    /\ CanStartGeo
    /\ \E userId \in UserInputs, lat \in LatInputs, lng \in LngInputs, role \in RoleInputs :
         LET c == NewCall("updateLocation", 0, Null, userId, ValidRole(role))
         IN  calls' = Append(calls,
                 IF userId = Undefined \/ IsNaN(lat) \/ IsNaN(lng)
                 THEN Finish(c, "none", "none", "invalid")
                 ELSE [c EXCEPT !.pc = "upsert", !.lat = lat.v, !.lng = lng.v, !.ts = now])
    /\ UNCHANGED <<locations, drivers, now>>
    /\ UnchangedRegistry

updateLocation_upsert ==
    /\ \E i \in CallIds, fail \in BOOLEAN :
         /\ InFlight(i, "updateLocation", "upsert")
         /\ LET c == calls[i]
            IN  IF fail
                THEN /\ calls' = [calls EXCEPT ![i] = Finish(c, "none", "none", "store")]
                     /\ UNCHANGED locations
                ELSE /\ locations' = Upsert(c.drv, c.lat, c.lng, c.arg, c.ts)
                     /\ calls' = [calls EXCEPT ![i] =
                           [Finish(c, "none", "none", "none") EXCEPT !.wrote = TRUE]]
    /\ UNCHANGED <<drivers, now>>
    /\ UnchangedRegistry

\* updateDriverLocation of part_001: no validation; the row (role driver) is
\* built with the time read from the clock, then upserted.  A coordinate
\* that is not a number reaches the store as null, which refuses it.
updateDriverLocation_start ==
    /\ server = "part_001"
    /\ CanStartGeo
    /\ \E driverId \in UserInputs, lat \in LatInputs, lng \in LngInputs :
         LET c == NewCall("updateDriverLocation", 0, Null, driverId, "driver")
         IN  calls' = Append(calls,
                 IF driverId = Undefined \/ IsNaN(lat) \/ IsNaN(lng)
                 THEN [c EXCEPT !.pc = "refused"]
                 ELSE [c EXCEPT !.pc = "upsert", !.lat = lat.v, !.lng = lng.v, !.ts = now])
    /\ UNCHANGED <<locations, drivers, now>>
    /\ UnchangedRegistry

\* the upsert, then the update of users.location (its error is not looked
\* at) and the broadcast of driverLocation
updateDriverLocation_upsert ==
    /\ \E i \in CallIds, fail \in BOOLEAN :
         /\ calls[i].op = "updateDriverLocation"
         /\ calls[i].pc \in {"upsert", "refused"}
         /\ LET c == calls[i]
            IN  IF fail \/ c.pc = "refused"
                THEN /\ calls' = [calls EXCEPT ![i] = Finish(c, "error", "caller", "store")]
                     /\ UNCHANGED locations
                ELSE /\ locations' = Upsert(c.drv, c.lat, c.lng, "driver", c.ts)
                     /\ calls' = [calls EXCEPT ![i] =
                           [Finish(c, "driverLocation", "all", "none") EXCEPT !.wrote = TRUE]]
    /\ UNCHANGED <<drivers, now>>
    /\ UnchangedRegistry

\* how a requestNearbyDrivers handler of variant v ends when it fails:
\* part_001 sends an error event, the others only log
NearbyFailure(c, why) ==
    IF server = "part_001" THEN Finish(c, "error", "caller", why)
    ELSE Finish(c, "none", "none", why)

\* requestNearbyDrivers: validate (not in index.js line 96, whose upsert and
\* query then fail in the store), store the caller as a rider, query.  The
\* upsert carries the time the handler read when it built the row.
requestNearbyDrivers_upsert ==
    /\ CanStartGeo
    /\ \E userId \in UserInputs, lat \in LatInputs, lng \in LngInputs, fail \in BOOLEAN :
         LET c == NewCall("requestNearbyDrivers", 0, Null, userId, Null)
         IN  IF userId = Undefined \/ IsNaN(lat) \/ IsNaN(lng)
             THEN /\ calls' = Append(calls, NearbyFailure(c, "invalid"))
                  /\ UNCHANGED locations
             ELSE IF fail
             THEN \* index.js line 96 does not look at the upsert's error
                  /\ calls' = Append(calls,
                        IF server = "index96"
                        THEN [c EXCEPT !.pc = "query", !.lat = lat.v, !.lng = lng.v]
                        ELSE NearbyFailure(c, "store"))
                  /\ UNCHANGED locations
             ELSE /\ locations' = Upsert(userId, lat.v, lng.v, "rider", now)
                  /\ calls' = Append(calls,
                        [c EXCEPT !.pc = "query", !.lat = lat.v, !.lng = lng.v,
                                  !.wrote = TRUE])
    /\ UNCHANGED <<drivers, now>>
    /\ UnchangedRegistry

\* the query is built and served at time `now`
requestNearbyDrivers_query ==
    /\ \E i \in CallIds, fail \in BOOLEAN :
         /\ InFlight(i, "requestNearbyDrivers", "query")
         /\ LET c == calls[i]
            IN  IF fail
                THEN calls' = [calls EXCEPT ![i] = NearbyFailure(c, "store")]
                ELSE \E q \in NearbyAnswers(server, c.drv, c.lat, c.lng, now) :
                        calls' = [calls EXCEPT ![i] =
                           [Finish(c, "nearbyDrivers", "caller", "none")
                              EXCEPT !.result = [k \in 1..Len(q) |->
                                                   ResultRow(q[k], c.lat, c.lng, now)]]]
    /\ UNCHANGED <<locations, drivers, now>>
    /\ UnchangedRegistry

\* GET /rides/nearby of rides.js: nearby_drivers(parseFloat(lat),
\* parseFloat(lng), 5000) with no rider named; a coordinate that does not
\* parse reaches the procedure as null, which fails
getNearby ==
    /\ CanStartGeo
    /\ \E lat \in LatInputs, lng \in LngInputs, fail \in BOOLEAN :
         LET c == NewCall("getNearby", 0, Null, Null, Null)
         IN  IF fail \/ IsNaN(lat) \/ IsNaN(lng)
             THEN calls' = Append(calls, [Finish(c, "none", "none", "store")
                                            EXCEPT !.http = "400"])
             ELSE \E q \in NearbyAnswers("index", Null, lat.v, lng.v, now) :
                     calls' = Append(calls,
                        [Finish(c, "none", "none", "none")
                           EXCEPT !.http = "200", !.lat = lat.v, !.lng = lng.v,
                                  !.result = [k \in 1..Len(q) |->
                                                ResultRow(q[k], lat.v, lng.v, now)]])
    /\ UNCHANGED <<locations, drivers, now>>
    /\ UnchangedRegistry

NextGeo ==
    \/ Tick
    \/ updateLocation_start
    \/ updateLocation_upsert
    \/ updateDriverLocation_start
    \/ updateDriverLocation_upsert
    \/ requestNearbyDrivers_upsert
    \/ requestNearbyDrivers_query
    \/ getNearby

InitGeo ==
    /\ server \in NearbyVariants
    /\ requests = << >>
    /\ rides = << >>
    /\ vehicles = StandardVehicles
    /\ calls = << >>
    /\ locations \in {[u \in Users |-> NoLocation],
                      [u \in Users |-> IF u = "d1" THEN DriverAtOrigin ELSE NoLocation]}
    /\ drivers = [d \in Drivers |-> NoRow]
    /\ now = 0
    /\ NoPayments
    /\ NoChat

SpecGeo == InitGeo /\ [][NextGeo]_vars

-----------------------------------------------------------------------------
(* Connections and presence: the table drivers, and who receives a         *)
(* broadcast                                                                *)

\* the connections: one of the rider, one of a driver
SocketIds == {"u1", "d1"}
MaxPresenceCalls == 2

\* a client opens a connection: io.on('connection'); the new connection has
\* joined no room
connect ==
    /\ \E s \in SocketIds \ sockets :
         /\ sockets' = sockets \cup {s}
         /\ rooms' = {m \in rooms : m.sock # s}
    /\ UNCHANGED <<calls, delivered, messages, feed>>
    /\ UNCHANGED <<server, requests, rides, vehicles, locations, drivers, now>>
    /\ UnchangedPayments

\* a connection closes: the socket server takes it out of all its rooms,
\* the handler only logs
disconnect ==
    /\ \E s \in sockets :
         /\ sockets' = sockets \ {s}
         /\ rooms' = {m \in rooms : m.sock # s}
    /\ UNCHANGED <<calls, delivered, messages, feed>>
    /\ UNCHANGED <<server, requests, rides, vehicles, locations, drivers, now>>
    /\ UnchangedPayments

\* the connections an emit of a finished call went to
Recipients(c) ==
    CASE c.to = "all" -> sockets
      [] c.to = "caller" -> {c.sock} \cap sockets
      [] OTHER -> {}

StatusInputs == {"online", "offline", "busy", "away", Undefined}

\* an upsert that keeps the status of a row that exists
UpsertStatus_keepFirst(d, status) ==
    [drivers EXCEPT ![d] = IF @ # NoRow THEN @
                           ELSE IF status # Undefined THEN status ELSE Null]

\* the upsert {id, status} with onConflict id: a status that is undefined
\* is not part of the row sent, so an existing row keeps its status and a
\* new row gets none
UpsertStatus(d, status) ==
    [drivers EXCEPT ![d] = IF status # Undefined THEN status
                           ELSE IF @ = NoRow THEN Null ELSE @]

\* updateDriverStatus: no validation, one upsert, nothing is emitted; an
\* error is only logged
updateDriverStatus ==
    /\ Len(calls) < MaxPresenceCalls
    /\ \E s \in sockets, driverId \in IdInputs, status \in StatusInputs, fail \in BOOLEAN :
         LET c == [NewCall("updateDriverStatus", 0, Null, driverId, status)
                     EXCEPT !.sock = s]
         IN  IF fail \/ driverId = Undefined
             THEN /\ calls' = Append(calls, Finish(c, "none", "none", "store"))
                  /\ UNCHANGED drivers
             ELSE /\ drivers' = UpsertStatus(driverId, status)
                  /\ calls' = Append(calls,
                        [Finish(c, "none", "none", "none") EXCEPT !.wrote = TRUE])
    /\ UNCHANGED <<server, requests, rides, vehicles, locations, now>>
    /\ UnchangedPayments
    /\ UnchangedChat

\* an answer that passes on whatever the read gave
DriverStatusAnswer_raw(row, failed) == IF failed THEN "offline" ELSE row

\* the status getDriverStatus answers with: .single() fails when there is
\* no row, and the catch and `driverData?.status || 'offline'` both give
\* offline
DriverStatusAnswer(row, failed) ==
    IF failed \/ row = NoRow \/ row = Null THEN "offline" ELSE row

\* getDriverStatus: read the row of the driver, answer the caller
getDriverStatus ==
    /\ Len(calls) < MaxPresenceCalls
    /\ \E s \in sockets, driverId \in IdInputs, fail \in BOOLEAN :
         LET row == IF driverId = Undefined THEN NoRow ELSE drivers[driverId]
             c == [NewCall("getDriverStatus", 0, Null, driverId,
                           DriverStatusAnswer(row, fail))
                     EXCEPT !.sock = s, !.seen = row]
         IN  calls' = Append(calls,
                 Finish(c, "driverStatus", "caller",
                        IF fail THEN "store" ELSE IF row = NoRow THEN "norow" ELSE "none"))
    /\ UNCHANGED <<server, requests, rides, vehicles, locations, drivers, now>>
    /\ UnchangedPayments
    /\ UnchangedChat

\* a rider asks for a ride while drivers come, go and set their status
rideRequestOffer ==
    /\ Len(calls) < MaxPresenceCalls
    /\ (newRideRequest \/ newRideRequest_index)

NextPresence ==
    \/ connect
    \/ disconnect
    \/ updateDriverStatus
    \/ getDriverStatus
    \/ rideRequestOffer

InitPresence ==
    /\ server \in {"part_001", "index"}
    /\ requests = << >>
    /\ rides = << >>
    /\ vehicles = StandardVehicles
    /\ calls = << >>
    /\ locations = [u \in Users |-> NoLocation]
    /\ drivers \in {[d \in Drivers |-> NoRow],
                    [d \in Drivers |-> IF d = "d1" THEN "online" ELSE NoRow]}
    /\ now = 0
    /\ NoPayments
    /\ NoChat

SpecPresence == InitPresence /\ [][NextPresence]_vars

\* presence and positions side by side: the status handlers and the
\* location handlers on one server
NextStores ==
    \/ updateDriverStatus
    \/ getDriverStatus
    \/ updateLocation_start
    \/ updateLocation_upsert
    \/ updateDriverLocation_start
    \/ updateDriverLocation_upsert

SpecStores == InitPresence /\ [][NextStores]_vars

-----------------------------------------------------------------------------
(* Chat rooms and per-entity rooms.  `delivered` logs the events sent to a  *)
(* room or to everybody, each with the connections that received it; an    *)
(* error event to the caller is kept in the call's record.                  *)

MaxChatCalls == 2
MaxMessages == 1

ChatIds == {"c1"}
ChatInputs == ChatIds \cup {Undefined}
ContentInputs == {"text", Undefined}

\* the room `chat_${chatId}`, the room named after a user id, and everybody
ChatRoom(c) == [kind |-> "chat", id |-> c]
UserRoom(u) == [kind |-> "user", id |-> u]
Everybody == [kind |-> "all", id |-> "all"]

\* the connections io.to(room) reaches; io.emit reaches every open one
Members(room) ==
    IF room = Everybody THEN sockets
    ELSE {s \in sockets : [sock |-> s, room |-> room] \in rooms}

\* one emit: the event, the room it was sent to, the message it carries and
\* the connections that received it
Emit(event, room, msg) ==
    [event |-> event, room |-> room, msg |-> msg, to |-> Members(room)]

\* a join that also registers a connection that has closed
JoinRoom_leaky(s, room) == rooms \cup {[sock |-> s, room |-> room]}

\* socket.join(room): on a connection that has closed it does nothing
JoinRoom(s, room) ==
    IF s \in sockets THEN rooms \cup {[sock |-> s, room |-> room]} ELSE rooms

\* socket.leave(room)
LeaveRoom(s, room) == rooms \ {[sock |-> s, room |-> room]}

ChatServers == {"part_001", "index"}

\* joinChat: a missing chat id is answered with an error to the caller
joinChat ==
    /\ server \in ChatServers
    /\ \E s \in sockets, chatId \in ChatInputs :
         rooms' = IF chatId = Undefined THEN rooms ELSE JoinRoom(s, ChatRoom(chatId))
    /\ UNCHANGED <<sockets, calls, delivered, messages, feed>>
    /\ UNCHANGED <<server, requests, rides, vehicles, locations, drivers, now>>
    /\ UnchangedPayments

\* leaveChat: a missing chat id is answered with an error to the caller
leaveChat ==
    /\ server \in ChatServers
    /\ \E s \in sockets, chatId \in ChatInputs :
         rooms' = IF chatId = Undefined THEN rooms ELSE LeaveRoom(s, ChatRoom(chatId))
    /\ UNCHANGED <<sockets, calls, delivered, messages, feed>>
    /\ UNCHANGED <<server, requests, rides, vehicles, locations, drivers, now>>
    /\ UnchangedPayments

\* the insert of a message: the row is stored and the change feed will
\* announce it
InsertMessage(c, chatId) ==
    /\ Len(messages) < MaxMessages
    /\ messages' = Append(messages, chatId)
    /\ feed' = feed \cup {Len(messages) + 1}
    /\ calls' = Append(calls, [c EXCEPT !.pc = "emit", !.req = Len(messages) + 1,
                                        !.wrote = TRUE])

\* sendMessage: validate, insert the message
sendMessage_insert ==
    /\ server \in ChatServers
    /\ Len(calls) < MaxChatCalls
    /\ \E s \in sockets, chatId \in ChatInputs, content \in ContentInputs, fail \in BOOLEAN :
         LET c == [NewCall("sendMessage", 0, Null, Null, chatId) EXCEPT !.sock = s]
         IN  IF chatId = Undefined \/ content = Undefined
             THEN /\ calls' = Append(calls, Finish(c, "error", "caller", "invalid"))
                  /\ UNCHANGED <<messages, feed>>
             ELSE IF fail
             THEN /\ calls' = Append(calls, Finish(c, "error", "caller", "store"))
                  /\ UNCHANGED <<messages, feed>>
             ELSE InsertMessage(c, chatId)
    /\ UNCHANGED <<sockets, rooms, delivered>>
    /\ UNCHANGED <<server, requests, rides, vehicles, locations, drivers, now>>
    /\ UnchangedPayments

\* sendMessage after the insert: newMessage to the room of the chat
sendMessage_emit ==
    /\ \E i \in CallIds :
         /\ InFlight(i, "sendMessage", "emit")
         /\ delivered' = Append(delivered,
                Emit("newMessage", ChatRoom(calls[i].arg), calls[i].req))
         /\ calls' = [calls EXCEPT ![i] = Finish(calls[i], "newMessage", "room", "none")]
    /\ UNCHANGED <<sockets, rooms, messages, feed>>
    /\ UNCHANGED <<server, requests, rides, vehicles, locations, drivers, now>>
    /\ UnchangedPayments

\* the inbound newMessage handler of part_001: no validation (the store
\* refuses a row without chat), insert the message
newMessage_insert ==
    /\ server = "part_001"
    /\ Len(calls) < MaxChatCalls
    /\ \E s \in sockets, chatId \in ChatInputs, fail \in BOOLEAN :
         LET c == [NewCall("newMessage", 0, Null, Null, chatId) EXCEPT !.sock = s]
         IN  IF fail \/ chatId = Undefined
             THEN /\ calls' = Append(calls, Finish(c, "error", "caller", "store"))
                  /\ UNCHANGED <<messages, feed>>
             ELSE InsertMessage(c, chatId)
    /\ UNCHANGED <<sockets, rooms, delivered>>
    /\ UNCHANGED <<server, requests, rides, vehicles, locations, drivers, now>>
    /\ UnchangedPayments

\* the newMessage handler after the insert: io.emit("newMessage", ...)
newMessage_emit ==
    /\ \E i \in CallIds :
         /\ InFlight(i, "newMessage", "emit")
         /\ delivered' = Append(delivered, Emit("newMessage", Everybody, calls[i].req))
         /\ calls' = [calls EXCEPT ![i] = Finish(calls[i], "newMessage", "all", "none")]
    /\ UNCHANGED <<sockets, rooms, messages, feed>>
    /\ UNCHANGED <<server, requests, rides, vehicles, locations, drivers, now>>
    /\ UnchangedPayments

\* the subscription to the inserts of messages: fetch the sender (an error
\* is only logged), then newMessage to the room of the chat and
\* chatListUpdate to everybody
announce ==
    /\ \E m \in feed, fail \in BOOLEAN :
         /\ feed' = feed \ {m}
         /\ delivered' =
               IF fail THEN delivered
               ELSE delivered \o <<Emit("newMessage", ChatRoom(messages[m]), m),
                                   Emit("chatListUpdate", Everybody, m)>>
    /\ UNCHANGED <<sockets, rooms, messages, calls>>
    /\ UNCHANGED <<server, requests, rides, vehicles, locations, drivers, now>>
    /\ UnchangedPayments

\* updateLocation of part_000: the update of users.location is sent to the
\* store
updateLocation_users ==
    /\ server = "part_000"
    /\ Len(calls) < MaxChatCalls
    /\ \E s \in sockets, userId \in UserInputs :
         calls' = Append(calls, [NewCall("updateLocation_users", 0, Null, userId, Null)
                                   EXCEPT !.sock = s, !.pc = "update"])
    /\ UNCHANGED <<sockets, rooms, delivered, messages, feed>>
    /\ UNCHANGED <<server, requests, rides, vehicles, locations, drivers, now>>
    /\ UnchangedPayments

\* updateLocation of part_000 after the update: locationUpdated to the room
\* of the user id unless the store reported an error, then
\* socket.join(userId)
updateLocation_join ==
    /\ \E i \in CallIds, fail \in BOOLEAN :
         /\ InFlight(i, "updateLocation_users", "update")
         /\ LET c == calls[i]
                failed == fail \/ c.drv = Undefined
            IN  /\ delivered' = IF failed THEN delivered
                                ELSE Append(delivered,
                                        Emit("locationUpdated", UserRoom(c.drv), 0))
                /\ rooms' = JoinRoom(c.sock, UserRoom(c.drv))
                /\ calls' = [calls EXCEPT ![i] =
                      IF failed THEN Finish(c, "none", "none", "store")
                      ELSE [Finish(c, "locationUpdated", "room", "none")
                              EXCEPT !.wrote = TRUE]]
    /\ UNCHANGED <<sockets, messages, feed>>
    /\ UNCHANGED <<server, requests, rides, vehicles, locations, drivers, now>>
    /\ UnchangedPayments

NextChat ==
    \/ connect
    \/ disconnect
    \/ joinChat
    \/ leaveChat
    \/ sendMessage_insert
    \/ sendMessage_emit
    \/ newMessage_insert
    \/ newMessage_emit
    \/ announce
    \/ updateLocation_users
    \/ updateLocation_join

InitChat ==
    /\ server \in ChatServers \cup {"part_000"}
    /\ requests = << >>
    /\ rides = << >>
    /\ vehicles = StandardVehicles
    /\ calls = << >>
    /\ locations = [u \in Users |-> NoLocation]
    /\ drivers = [d \in Drivers |-> NoRow]
    /\ now = 0
    /\ NoPayments
    /\ sockets \in SUBSET SocketIds
    /\ rooms = {}
    /\ delivered = << >>
    /\ messages = << >>
    /\ feed = {}

SpecChat == InitChat /\ [][NextChat]_vars

-----------------------------------------------------------------------------
(* The rides of a rider: fetchActiveRide and the cancelRide event.  The    *)
(* rides table is shared with the clients, which move a ride through its   *)
(* statuses; the server itself reads the statuses named below.             *)

\* .in('status', ['requested', 'accepted', 'in-progress'])
ActiveStatuses == {"requested", "accepted", "in-progress"}
\* the statuses of a ride the server reads or writes
RideStatuses == ActiveStatuses \cup {"completed", "canceled"}

\* .eq('rider_id', userId).in('status', [...]) on rides
ActiveRidesOf(userId) ==
    {k \in 1..Len(rides) : rides[k].rider_id = userId /\ rides[k].status \in ActiveStatuses}

\* fetchActiveRide: the caller names a user id; the active ride of that
\* user, or null when .single() found none or several (PGRST116), is sent
\* to the caller
fetchActiveRide ==
    /\ server \in {"part_001", "index"}
    /\ CanStart
    /\ \E s \in sockets, userId \in Riders \cup {Undefined}, fail \in BOOLEAN :
         LET rows == ActiveRidesOf(userId)
             ride == IF Cardinality(rows) = 1 THEN CHOOSE k \in rows : TRUE ELSE 0
             c == [NewCall("fetchActiveRide", ride, userId, Null, Null) EXCEPT !.sock = s]
         IN  calls' = Append(calls,
                 IF userId = Undefined THEN Finish(c, "error", "caller", "invalid")
                 ELSE IF fail THEN Finish(c, "error", "caller", "store")
                 ELSE [Finish(c, "activeRideFetched", "caller",
                              IF ride = 0 THEN "norow" ELSE "none")
                          EXCEPT !.seen = RideStatus(ride)])
    /\ UNCHANGED <<requests, rides, vehicles>>
    /\ UnchangedGeo

\* a cancel that writes whatever ride the caller names
cancelRide_rideStore_unchecked(k, userId) ==
    IF RideExists(k) THEN [rides EXCEPT ![k] = [@ EXCEPT !.status = "canceled"]]
    ELSE rides

\* the rides table after the cancelRide handler of rides.  The try block
\* declares `const { data, error }` for the result of its update, so every
\* `data` of the block is that binding and not the handler's parameter: the
\* first read, `data.rideId` in the validation, comes before the binding is
\* initialised and throws a ReferenceError.  No store call is reached.
cancelRide_rideStore(k, userId) == rides

\* how that handler ends: the catch sends 'Server error: ...' to the caller
cancelRide_rideEnd(c) == Finish(c, "error", "caller", "throws")

\* a row id the payload does not carry (the field is undefined): no row has it
NoId == 0

\* the payloads of a cancelRide event: {requestId, reason} cancels a ride
\* request, {rideId, userId} cancels a ride
CancelPayloads ==
    [requestId : ReqIds \cup {NoId}, rideId : RideIds \cup {NoId},
     userId : Riders \cup {Undefined}]

\* the handlers a cancelRide event runs: one in index.js, two in part_001
CancelHandlers == IF server = "part_001" THEN 2 ELSE 1

\* one cancelRide event.  part_001 registers two handlers for it on every
\* connection, the one of ride_requests (line 405) and the one of rides
\* (line 1190), and each event runs both with the same payload: the first
\* issues its update, the second throws before its first store call.
\* index.js registers the second only.
cancelRide ==
    /\ server \in {"part_001", "index"}
    /\ Len(calls) + CancelHandlers <= MaxCalls
    /\ \E s \in sockets, e \in CancelPayloads, fail \in BOOLEAN :
         LET r == e.requestId
             k == e.rideId
             c1 == [NewCall("cancelRide", r, Null, Null, e) EXCEPT !.sock = s]
             c2 == [NewCall("cancelRide_ride", k, e.userId, Null, e)
                      EXCEPT !.sock = s, !.seen = RideStatus(k)]
         IN  /\ rides' = cancelRide_rideStore(k, e.userId)
             /\ IF server = "part_001"
                THEN /\ calls' = calls \o <<cancelRide_rideEnd(c2),
                                            cancelRide_requestEnd(c1, r, fail)>>
                     /\ requests' = cancelRide_requestStore(r, fail)
                ELSE /\ calls' = Append(calls, cancelRide_rideEnd(c2))
                     /\ UNCHANGED requests
    /\ UNCHANGED vehicles
    /\ UnchangedGeo

NextRides ==
    \/ postRequest
    \/ postAccept
    \/ fetchActiveRide
    \/ getDriverStatus
    \/ cancelRide

\* one ride of the rider in any of its statuses, or none
InitRides ==
    /\ server \in {"part_001", "index"}
    /\ requests \in {<< >>, <<PendingRequest("u1", "standard")>>}
    /\ rides \in {<< >>} \cup
                 {<<[rider_id |-> "u1", driver_id |-> Null, status |-> st, request |-> 0]>> :
                     st \in RideStatuses}
    /\ vehicles = StandardVehicles
    /\ calls = << >>
    /\ locations = [u \in Users |-> NoLocation]
    /\ drivers \in {[d \in Drivers |-> NoRow],
                    [d \in Drivers |-> IF d = "d1" THEN "online" ELSE NoRow]}
    /\ now = 0
    /\ NoPayments
    /\ NoChat

SpecRides == InitRides /\ [][NextRides]_vars

-----------------------------------------------------------------------------
(* Payments: the Monetbil callback (webhook-monetbil.js, mounted by         *)
(* part_001, and the copy in index.js) and the poll /api/check-payment of  *)
(* webhook-monetbil.js, over the tables transactions and wallets.  Amounts *)
(* are whole units.                                                         *)

MaxPayCalls == 2

\* the fallback of process.env.SERVICE_KEY
ServiceKey == "M55rSvthtYGRYp1Nl81o4W9xVUynS97X"

\* the status field of a callback, and what the gateway answers to a poll
GatewayStatuses == {"SUCCESSFUL", "FAILED", "PENDING"}
PayStatusInputs == GatewayStatuses \cup {Undefined}
PayRefInputs == PayRefs \cup {Undefined}
FeeInputs == {0, 1}

\* a transaction waiting for its payment
PendingTransaction(user, amount) ==
    [user_id |-> user, status |-> "pending", amount |-> amount]

\* `${service}${transaction_id}${amount}${currency}${status}${payment_ref}${SERVICE_KEY}`
\* for the one service, gateway transaction and currency of the model
DataToSign(amount, status, payment_ref, key) ==
    <<"svc", "t1", amount, "XAF", status, payment_ref, key>>

\* md5(data): a digest that differs when the data differ
Md5(data) == <<"md5", data>>

\* the sign field of a callback: computed by the gateway, computed with
\* another key, computed for another status, or missing
SignKinds == {"gateway", "forged", "tampered", "none"}
SignOf(kind, amount, status, payment_ref) ==
    CASE kind = "gateway" -> Md5(DataToSign(amount, status, payment_ref, ServiceKey))
      [] kind = "forged" -> Md5(DataToSign(amount, status, payment_ref, "k0"))
      [] kind = "tampered" -> Md5(DataToSign(amount, "PENDING", payment_ref, ServiceKey))
      [] kind = "none" -> << >>

\* the stored status of a payment that succeeded: 'completed' in
\* webhook-monetbil.js, 'successful' in index.js
DoneStatus == IF server = "index" THEN "successful" ELSE "completed"

\* switch (status.toUpperCase()); index.js has no case 'SUCCESS'
DbStatus(status) ==
    CASE status = "SUCCESSFUL" -> DoneStatus
      [] status = "SUCCESS" /\ server # "index" -> DoneStatus
      [] status \in {"FAILED", "CANCELLED"} -> "failed"
      [] status = "PENDING" -> "pending"
      [] OTHER -> "failed"

\* a validation that does not look at the signature
CallbackRejection_unsigned(p) ==
    IF p.payment_ref = Undefined \/ p.status = Undefined THEN "400" ELSE "ok"

\* the validation of a callback: the required fields, then the signature
CallbackRejection(p) ==
    IF p.payment_ref = Undefined \/ p.status = Undefined THEN "400"
    ELSE IF Md5(DataToSign(p.amount, p.status, p.payment_ref, ServiceKey)) # p.sign
    THEN "401"
    ELSE "ok"

\* one invocation of a payment handler: the payload, the stored status to
\* write, where it stands, its HTTP response, the transaction's status and
\* user it read, the net amount to credit, the balance it read, and whether
\* it wrote the transaction and the wallet
NewPayCall(op, p) ==
    [op |-> op, payload |-> p, payment_ref |-> p.payment_ref, arg |-> "none",
     pc |-> "start", http |-> "none", why |-> "none", seen |-> "none",
     user |-> "none", net |-> 0, balance |-> 0, wrote |-> FALSE, credited |-> FALSE]

PayRespond(c, http, why) == [c EXCEPT !.pc = "done", !.http = http, !.why = why]

\* ['completed', 'failed'].includes(transaction.status)
Processed(status) == status \in {DoneStatus, "failed"}

CanStartPay == Len(calls) < MaxPayCalls

\* the amount of every transaction of the model
AmountInputs == {5}

UnchangedDispatch ==
    UNCHANGED <<server, requests, rides, vehicles, locations, drivers, now>> /\ UnchangedChat

\* how a handler that has done its work ends.  webhook-monetbil.js then
\* emits transaction_update through req.app.get('io'), a setting no
\* server file makes: io is undefined, io.to throws, the catch rethrows
\* and no response is sent.  index.js answers 200.
PayEnd(c) ==
    IF server = "part_001" THEN PayRespond(c, "none", "throws")
    ELSE PayRespond(c, "200", "none")

\* the Monetbil callback: validate, then read the transaction by its
\* payment_ref; one already completed or failed is answered at once
monetbil_fetch ==
    /\ server \in {"part_001", "index"}
    /\ CanStartPay
    /\ \E ref \in PayRefInputs, status \in PayStatusInputs, kind \in SignKinds,
          amount \in AmountInputs, fee \in FeeInputs, fail \in BOOLEAN :
         LET p == [payment_ref |-> ref, status |-> status, amount |-> amount,
                   fee |-> fee, sign |-> SignOf(kind, amount, status, ref)]
             c == NewPayCall("callback", p)
             t == IF ref \in PayRefs THEN transactions[ref] ELSE NoTransaction
         IN  calls' = Append(calls,
                 IF CallbackRejection(p) # "ok"
                 THEN PayRespond(c, CallbackRejection(p), "invalid")
                 ELSE IF fail THEN PayRespond(c, "404", "store")
                 ELSE IF t = NoTransaction THEN PayRespond(c, "404", "norow")
                 ELSE IF Processed(t.status)
                 THEN PayRespond([c EXCEPT !.seen = t.status], "200", "processed")
                 ELSE [c EXCEPT !.pc = "updateTransaction", !.arg = DbStatus(status),
                                !.seen = t.status, !.user = t.user_id,
                                !.net = amount - fee])
    /\ UnchangedPayments
    /\ UnchangedDispatch

\* POST /api/check-payment: read the transaction, ask the gateway for the
\* status of the payment.  The gateway's answer changes nothing in the
\* store, so it is taken with the read.
checkPayment_fetch ==
    /\ server = "part_001"
    /\ CanStartPay
    /\ \E ref \in PayRefInputs, result \in PayStatusInputs, fee \in FeeInputs,
          fail \in BOOLEAN :
         LET p == [payment_ref |-> ref, status |-> result, amount |-> 0,
                   fee |-> fee, sign |-> << >>]
             c == NewPayCall("checkPayment", p)
             t == IF ref \in PayRefs THEN transactions[ref] ELSE NoTransaction
         IN  calls' = Append(calls,
                 IF ref = Undefined THEN PayRespond(c, "400", "invalid")
                 ELSE IF fail THEN PayRespond(c, "404", "store")
                 ELSE IF t = NoTransaction THEN PayRespond(c, "404", "norow")
                 ELSE IF Processed(t.status)
                 THEN PayRespond([c EXCEPT !.seen = t.status], "200", "processed")
                 ELSE IF result = Undefined
                 THEN \* the gateway failed or answered without a status
                      PayRespond([c EXCEPT !.seen = t.status], "500", "gateway")
                 ELSE [c EXCEPT !.pc = "updateTransaction", !.arg = DbStatus(result),
                                !.seen = t.status, !.user = t.user_id,
                                !.net = t.amount - fee])
    /\ UnchangedPayments
    /\ UnchangedDispatch

\* .update({status: dbStatus, ...}).eq('payment_ref', payment_ref): no
\* filter on the stored status
payment_updateTransaction ==
    /\ \E i \in CallIds, fail \in BOOLEAN :
         /\ calls[i].pc = "updateTransaction"
         /\ LET c == calls[i]
            IN  IF fail
                THEN /\ calls' = [calls EXCEPT ![i] = PayRespond(c, "500", "store")]
                     /\ UNCHANGED transactions
                ELSE /\ transactions' = [transactions EXCEPT
                                           ![c.payment_ref].status = c.arg]
                     /\ calls' = [calls EXCEPT ![i] =
                           IF c.arg = DoneStatus
                           THEN [c EXCEPT !.pc = "fetchWallet", !.wrote = TRUE]
                           ELSE [PayEnd(c) EXCEPT !.wrote = TRUE]]
    /\ UNCHANGED wallets
    /\ UnchangedDispatch

\* the read of the user's wallet: a failure leads to the rollback
payment_fetchWallet ==
    /\ \E i \in CallIds, fail \in BOOLEAN :
         /\ calls[i].pc = "fetchWallet"
         /\ LET c == calls[i]
            IN  calls' = [calls EXCEPT ![i] =
                   IF fail \/ wallets[c.user] = NoWallet
                   THEN [c EXCEPT !.pc = "rollback", !.why = "wallet"]
                   ELSE [c EXCEPT !.pc = "updateWallet",
                                  !.balance = wallets[c.user].balance]]
    /\ UnchangedPayments
    /\ UnchangedDispatch

\* .update({balance: newBalance}).eq('user_id', ...): the balance read
\* before plus the net amount
payment_updateWallet ==
    /\ \E i \in CallIds, fail \in BOOLEAN :
         /\ calls[i].pc = "updateWallet"
         /\ LET c == calls[i]
            IN  IF fail
                THEN /\ calls' = [calls EXCEPT ![i] =
                                    [c EXCEPT !.pc = "rollback", !.why = "wallet"]]
                     /\ UNCHANGED wallets
                ELSE /\ wallets' = [wallets EXCEPT ![c.user].balance = c.balance + c.net]
                     /\ calls' = [calls EXCEPT ![i] = [PayEnd(c) EXCEPT !.credited = TRUE]]
    /\ UNCHANGED transactions
    /\ UnchangedDispatch

\* the rollback: the transaction is set to failed by its payment_ref; the
\* result of that update is not looked at
payment_rollback ==
    /\ \E i \in CallIds, fail \in BOOLEAN :
         /\ calls[i].pc = "rollback"
         /\ transactions' = IF fail THEN transactions
                            ELSE [transactions EXCEPT
                                    ![calls[i].payment_ref].status = "failed"]
         /\ calls' = [calls EXCEPT ![i] = PayRespond(calls[i], "500", "wallet")]
    /\ UNCHANGED wallets
    /\ UnchangedDispatch

NextPay ==
    \/ monetbil_fetch
    \/ checkPayment_fetch
    \/ payment_updateTransaction
    \/ payment_fetchWallet
    \/ payment_updateWallet
    \/ payment_rollback

\* two pending transactions of rider u1, or one, and the rider's wallet
InitPay ==
    /\ server \in {"part_001", "index"}
    /\ requests = << >>
    /\ rides = << >>
    /\ vehicles = StandardVehicles
    /\ calls = << >>
    /\ locations = [u \in Users |-> NoLocation]
    /\ drivers = [d \in Drivers |-> NoRow]
    /\ now = 0
    /\ NoChat
    /\ transactions \in
          {[p \in PayRefs |-> PendingTransaction("u1", 5)],
           [p \in PayRefs |-> IF p = "p1" THEN PendingTransaction("u1", 5)
                                ELSE NoTransaction]}
    /\ wallets = [u \in Riders |-> [user_id |-> u, balance |-> 0]]

SpecPay == InitPay /\ [][NextPay]_vars

-----------------------------------------------------------------------------
(* Properties of the ride-request registry *)

Done(i) == calls[i].pc = "done"
CallsOf(ops, r) == {i \in CallIds : calls[i].op \in ops /\ calls[i].req = r}

\* the step finishes call i
Finishes(i) ==
    /\ i \in 1..Len(calls')
    /\ calls'[i].pc = "done"
    /\ (i \in CallIds => calls[i].pc # "done")

\* the calls other than acceptRide that may write request r
OtherWriters(r) ==
    CallsOf({"declineRide", "cancelRide", "confirmRide", "postConfirm", "acceptRide_index"}, r)
        \cup {i \in CallIds : calls[i].op = "tripUpdate"}

\* the accepts of request r are all finished, none met a store error, the
\* first of them found r pending, and no other operation touches r
AcceptRace(r) ==
    /\ OtherWriters(r) = {}
    /\ \A i \in CallsOf({"acceptRide"}, r) : Done(i) /\ calls[i].why # "store"
    /\ \E i \in CallsOf({"acceptRide"}, r) : calls[i].seen = "pending"

\* the same for POST /rides/accept on ride k
PostAcceptRace(k) ==
    /\ \A i \in CallsOf({"postAccept"}, k) : calls[i].why # "store"
    /\ \E i \in CallsOf({"postAccept"}, k) : calls[i].seen = "requested"

C2_AtMostOneConfirm ==
    \A r \in ReqIds :
        /\ Cardinality({i \in CallsOf({"postConfirm", "acceptRide_index"}, r) :
                            calls[i].http = "200"}) <= 1
        /\ Cardinality({k \in 1..Len(rides) : rides[k].request = r}) <= 1

\* C3: the driver_id of a ride request changes only in a step that takes the
\* request from pending, with no driver, to accepted; a driver_id that is set
\* is never overwritten.
C3_DriverSetOnce ==
    [][\A r \in 1..Len(requests) :
          requests'[r].driver_id # requests[r].driver_id =>
             /\ requests[r].driver_id = Null
             /\ requests[r].status = "pending"
             /\ requests'[r].status = "accepted"]_vars

\* the edges of the ride-request state machine
Allowed(from, to) ==
    \/ from = "pending" /\ to \in {"accepted", "declined", "canceled"}
    \/ from = "accepted" /\ to \in {"confirmed", "canceled"}
    \/ from = "confirmed" /\ to = "canceled"

\* the status each operation moves a request to
Target(op) ==
    CASE op = "acceptRide" -> "accepted"
      [] op = "confirmRide" -> "confirmed"
      [] op = "declineRide" -> "declined"
      [] op = "cancelRide" -> "canceled"

RequestOps == {"acceptRide", "confirmRide", "declineRide", "cancelRide"}

\* C4: an acceptRide, confirmRide, declineRide or cancelRide that meets a
\* request whose status has no edge to the operation's target fails with an
\* error to the caller and leaves the stored status as it was.
C4_IllegalEdgeRejected ==
    [][\A i \in 1..Len(calls') :
          (/\ Finishes(i)
           /\ calls'[i].op \in RequestOps
           /\ Exists(calls'[i].req)
           /\ ~Allowed(StatusOf(calls'[i].req), Target(calls'[i].op)))
          => /\ calls'[i].emit = "error"
             /\ requests'[calls'[i].req].status = requests[calls'[i].req].status]_vars

\* C5: a ride request whose status is declined or canceled keeps that status.
C5_TerminalStays ==
    [][\A r \in 1..Len(requests) :
          requests[r].status \in {"declined", "canceled"}
             => requests'[r].status = requests[r].status]_vars

\* C6: a confirmRide succeeds (broadcasts tripUpdate) only when the stored
\* request is accepted by the confirming driver; otherwise it answers with an
\* error and the request stays as it was.
C6_ConfirmByAcceptedDriver ==
    [][\A i \in 1..Len(calls') :
          (Finishes(i) /\ calls'[i].op = "confirmRide")
          => IF calls'[i].emit = "tripUpdate"
             THEN /\ StatusOf(calls'[i].req) = "accepted"
                  /\ DriverOf(calls'[i].req) = calls'[i].drv
             ELSE /\ calls'[i].emit = "error"
                  /\ requests' = requests]_vars

\* C7: a newRideRequest stores its request as pending with no driver; one
\* whose pickup, dropoff or fare is missing, or whose fare or distance is not
\* positive, fails with an error, stores nothing and broadcasts nothing.
C7_CreateValidated ==
    [][\A i \in 1..Len(calls') :
          (Finishes(i) /\ calls'[i].op \in {"newRideRequest", "newRideRequest_index"})
          => /\ requests' # requests =>
                   /\ Len(requests') = Len(requests) + 1
                   /\ requests'[Len(requests')].status = "pending"
                   /\ requests'[Len(requests')].driver_id = Null
             /\ calls'[i].data = "malformed" =>
                   /\ calls'[i].emit = "error"
                   /\ requests' = requests]_vars

HttpOps == {"postConfirm", "postRequest", "postAccept", "getNearby"}

\* C8: every operation the server rejects (invalid input, a store error, an
\* update that matched no row) sends an error event to the connection it
\* came from (an HTTP route: answers 400).
C8_RejectionReported ==
    \A i \in CallIds :
        (Done(i) /\ calls[i].why # "none")
        => IF calls[i].op \in HttpOps THEN calls[i].http = "400"
           ELSE calls[i].emit = "error" /\ calls[i].to = "caller"

-----------------------------------------------------------------------------
(* Properties of the positions *)

\* the radius of the nearby query of the running variant
Radius == IF server \in {"test", "index96"} THEN TableRadius ELSE RpcRadius

\* C9: the nearbyDrivers answer to a query at time t holds no position older
\* than t minus five minutes, and leaves out no driver other than the caller
\* whose position is within the radius and less than five minutes old.
C9_StalenessExclusion ==
    [][\A i \in 1..Len(calls') :
          (/\ Finishes(i)
           /\ calls'[i].op = "requestNearbyDrivers"
           /\ calls'[i].emit = "nearbyDrivers")
          => /\ \A k \in 1..Len(calls'[i].result) :
                   calls'[i].result[k].age <= StaleMinutes
             /\ \A u \in Users \ {calls'[i].drv} :
                   (/\ HasRow(u)
                    /\ locations[u].role = "driver"
                    /\ now - locations[u].updated_at < StaleMinutes
                    /\ DistanceMeters(locations[u].lat, locations[u].lng,
                                      calls'[i].lat, calls'[i].lng) <= Radius)
                   => \E k \in 1..Len(calls'[i].result) :
                         calls'[i].result[k].user_id = u]_vars

\* C10: the nearbyDrivers answer to requestNearbyDrivers of user X never
\* holds X.
C10_SelfExcluded ==
    \A i \in CallIds :
        calls[i].op = "requestNearbyDrivers"
           => \A k \in 1..Len(calls[i].result) : calls[i].result[k].user_id # calls[i].drv

NearbyOps == {"requestNearbyDrivers", "getNearby"}
LocationOps == {"updateLocation", "updateDriverLocation", "requestNearbyDrivers"}

\* the step in which call i writes to the store
Writes(i) ==
    /\ i \in 1..Len(calls')
    /\ calls'[i].wrote
    /\ (i \in CallIds => ~calls[i].wrote)

\* C11: every row a nearby-drivers query returns had role driver in the
\* store when the query was served; a position of role rider is never
\* returned.
C11_OnlyDrivers ==
    \A i \in CallIds :
        calls[i].op \in NearbyOps =>
           \A k \in 1..Len(calls[i].result) : calls[i].result[k].role = "driver"

\* the table query of test.js returned a driver while a fresh rider position
\* of another user lay inside the radius and was left out
C11_Witness ==
    /\ server = "test"
    /\ \E i \in CallIds :
         /\ calls[i].op = "requestNearbyDrivers" /\ Done(i)
         /\ Len(calls[i].result) >= 1
         /\ \E u \in Users \ {calls[i].drv} :
               /\ HasRow(u) /\ locations[u].role = "rider"
               /\ now - locations[u].updated_at < StaleMinutes
               /\ DistanceMeters(locations[u].lat, locations[u].lng,
                                 calls[i].lat, calls[i].lng) <= TableRadius
               /\ \A k \in 1..Len(calls[i].result) : calls[i].result[k].user_id # u

\* C12: the rows of every nearby-drivers answer are in non-decreasing
\* distance from the query origin.
C12_DistanceOrdered ==
    \A i \in CallIds :
        calls[i].op \in NearbyOps =>
           \A k \in 1..Len(calls[i].result) :
              k + 1 <= Len(calls[i].result) =>
                 calls[i].result[k].distance <= calls[i].result[k + 1].distance

\* the role an upsert of call c writes
UpsertRole(c) ==
    CASE c.op = "updateLocation" -> c.arg
      [] c.op = "updateDriverLocation" -> "driver"
      [] c.op = "requestNearbyDrivers" -> "rider"

C14_UpdatedAtMonotonic ==
    [][\A u \in Users :
          HasRow(u) => locations'[u].updated_at >= locations[u].updated_at]_vars

\* latitude within [-90, 90] and longitude within [-180, 180], in hundredths
\* of a degree
ValidCoordinate(lat, lng) ==
    /\ -9000 <= lat /\ lat <= 9000
    /\ -18000 <= lng /\ lng <= 18000

\* C15: no location upsert stores a latitude or longitude that is outside
\* the valid range (a non-numeric one is never stored).
C15_CoordinateValidated ==
    [][\A i \in 1..Len(calls') :
          (Writes(i) /\ calls'[i].op \in LocationOps) =>
             ValidCoordinate(locations'[calls'[i].drv].lat,
                             locations'[calls'[i].drv].lng)]_vars

-----------------------------------------------------------------------------
(* Properties of presence and dispatch *)

\* C16: a rideRequest offer for a new ride request reaches no driver whose
\* presence status is not online.
C16_OffersOnlyOnline ==
    [][\A i \in 1..Len(calls') :
          (Finishes(i) /\ calls'[i].emit = "rideRequest") =>
             \A d \in Drivers :
                drivers[d] # "online" => d \notin Recipients(calls'[i])]_vars

\* C17: whoever becomes the driver of a ride request has an active vehicle
\* of the request's ride type.
C17_VehicleMatchesRideType ==
    [][\A r \in 1..Len(requests) :
          (requests'[r].driver_id # requests[r].driver_id
              /\ requests'[r].driver_id # Null)
          => vehicles[requests'[r].driver_id] = requests[r].ridetype]_vars

-----------------------------------------------------------------------------
(* Properties of the rooms *)

\* the emits of this step
NewEmits == (Len(delivered) + 1)..Len(delivered')

\* C19: a newMessage event of a chat reaches only connections that are in
\* the room of that chat when it is sent (they joined it and have not left
\* it since).
C19_ChatScopedDelivery ==
    [][\A k \in NewEmits :
          delivered'[k].event = "newMessage" =>
             delivered'[k].to \subseteq
                Members(ChatRoom(messages[delivered'[k].msg]))]_vars

-----------------------------------------------------------------------------
(* Properties of the rides and of the events addressed to one entity *)

\* C21: a driverStatus answer about driver D and an activeRideFetched answer
\* about user U are delivered to the connection of D, respectively of U,
\* and to no other connection.
C21_EntityScopedDelivery ==
    \A i \in CallIds :
        /\ calls[i].emit = "driverStatus" => calls[i].sock = calls[i].drv
        /\ calls[i].emit = "activeRideFetched" => calls[i].sock = calls[i].rider


\* the handler invocations this step starts
NewCalls == (Len(calls) + 1)..Len(calls')

\* C22: a cancelRide {rideId, userId} for a ride whose stored status is
\* completed or canceled ends with an error to the caller and leaves the
\* rides table as it was; the handler takes no step between a check and a
\* write in which the ride could change.
C22_FinishedRideNotCancelled ==
    [][\A i \in NewCalls :
          (/\ calls'[i].op = "cancelRide_ride"
           /\ RideStatus(calls'[i].req) \in {"completed", "canceled"})
          => /\ calls'[i].pc = "done"
             /\ calls'[i].emit = "error" /\ calls'[i].to = "caller"
             /\ rides' = rides]_vars

\* the owner's cancel of a completed ride was answered with an error and
\* the ride is still completed
C22_Witness ==
    \E i \in CallIds :
        /\ calls[i].op = "cancelRide_ride" /\ Done(i)
        /\ calls[i].req \in RideIds /\ calls[i].seen = "completed"
        /\ calls[i].rider = "u1"
        /\ calls[i].emit = "error"
        /\ RideStatus(calls[i].req) = "completed"


\* the ride k is one the user may cancel: it is the user's and it is active
Cancellable(k, userId) ==
    RideExists(k) /\ rides[k].rider_id = userId /\ rides[k].status \in ActiveStatuses

\* C29: a cancelRide {rideId, userId} for a ride of userId whose status is
\* requested, accepted or in-progress sets that ride to canceled and sends
\* rideCancelled to the caller; for any other ride it sends an error and
\* changes no ride.
C29_CancelRide ==
    [][\A i \in NewCalls :
          calls'[i].op = "cancelRide_ride" =>
             IF Cancellable(calls'[i].req, calls'[i].rider)
             THEN /\ RideExists(calls'[i].req)
                  /\ rides'[calls'[i].req].status = "canceled"
                  /\ calls'[i].emit = "rideCancelled" /\ calls'[i].to = "caller"
             ELSE /\ calls'[i].emit = "error" /\ calls'[i].to = "caller"
                  /\ rides' = rides]_vars


\* C30: one cancelRide event has one outcome: when its payload names a ride
\* request and the request is set to canceled, no error event goes to the
\* sender; when its payload names a ride, no rideUpdate is broadcast; and
\* only one of the two cancelRide handlers runs for the event.
C30_OneOutcomePerCancel ==
    [][\A i \in NewCalls :
          calls'[i].op \in {"cancelRide", "cancelRide_ride"} =>
             /\ (calls'[i].op = "cancelRide" /\ calls'[i].wrote)
                   => \A j \in NewCalls : calls'[j].emit # "error"
             /\ (calls'[i].op = "cancelRide_ride" /\ calls'[i].req # NoId)
                   => \A j \in NewCalls : calls'[j].emit # "rideUpdate"
             /\ \A j \in NewCalls : j = i]_vars


-----------------------------------------------------------------------------
(* Properties of the stored statuses *)

\* the statuses of a ride request
RequestStatuses == {"pending", "accepted", "confirmed", "declined", "canceled"}

\* C23: every stored ride request has one of the statuses pending, accepted,
\* confirmed, declined, canceled, whatever status a client sends with
\* tripUpdate.
C23_RequestStatusDomain ==
    \A r \in 1..Len(requests) : requests[r].status \in RequestStatuses

\* the statuses of a driver's presence
PresenceStatuses == {"online", "offline", "busy"}

\* C24: every status stored for a driver's presence is online, offline or
\* busy: an updateDriverStatus with another value leaves the stored status
\* as it was.
C24_PresenceStatusDomain ==
    \A d \in Drivers : drivers[d] \notin {NoRow, Null} => drivers[d] \in PresenceStatuses


-----------------------------------------------------------------------------
(* Properties of the acceptance broadcast and of /confirm *)

\* call i has broadcast tripUpdate with status accepted for request r
BroadcastAccepted(i, r) ==
    /\ calls[i].pc = "done" /\ calls[i].req = r
    /\ calls[i].emit = "tripUpdate" /\ calls[i].arg = "accepted"

ConfirmOps == {"postConfirm", "acceptRide_index"}

\* C26: a POST /rides/confirm that responds with an error has not changed
\* the ride request, and one that has set the request to accepted has
\* created a ride for it by the time it has responded.
C26_ConfirmAllOrNothing ==
    \A i \in CallIds :
        (calls[i].op \in ConfirmOps /\ Done(i)) =>
           /\ calls[i].http = "400" => ~calls[i].wrote
           /\ calls[i].wrote =>
                 \E k \in 1..Len(rides) : rides[k].request = calls[i].req


-----------------------------------------------------------------------------
(* Properties of who changes a ride request *)

\* the handlers that accept, confirm, decline or cancel a ride request
MutatingOps == {"acceptRide", "acceptRide_index", "postConfirm", "confirmRide",
                "declineRide", "cancelRide"}

\* C27: a step changes a stored ride request only as part of an accept,
\* confirm, decline or cancel, or as part of an inbound tripUpdate that
\* moves a pending request to accepted; every other step leaves the
\* requests unchanged.
C27_RequestFrame ==
    [][\A r \in 1..Len(requests) :
          requests'[r] # requests[r] =>
             \E i \in 1..Len(calls') :
                /\ calls'[i].wrote /\ (i \in CallIds => ~calls[i].wrote)
                /\ calls'[i].req = r
                /\ \/ calls'[i].op \in MutatingOps
                   \/ /\ calls'[i].op = "tripUpdate"
                      /\ requests[r].status = "pending"
                      /\ requests'[r].status = "accepted"]_vars

\* C28: a pending ride request has no driver, an accepted or confirmed one
\* has a driver, and a confirmed one has the driver whose confirmRide
\* succeeded.
C28_DriverMatchesStatus ==
    \A r \in 1..Len(requests) :
        /\ requests[r].status = "pending" => requests[r].driver_id = Null
        /\ requests[r].status \in {"accepted", "confirmed"} => requests[r].driver_id # Null
        /\ requests[r].status = "confirmed" =>
              \A i \in CallsOf({"confirmRide"}, r) :
                  (Done(i) /\ calls[i].wrote) => requests[r].driver_id = calls[i].drv


-----------------------------------------------------------------------------
(* Properties of the delivery of chat messages *)

\* the newMessage events carrying message m that reached connection s
Deliveries(m, s) ==
    {k \in 1..Len(delivered) :
        delivered[k].event = "newMessage" /\ delivered[k].msg = m /\ s \in delivered[k].to}

\* C31: a message stored by sendMessage reaches each connection at most
\* once as newMessage, the announcement of its insert by the change feed
\* counted in.
C31_AtMostOnceDelivery ==
    \A i \in CallIds :
        (calls[i].op = "sendMessage" /\ calls[i].wrote) =>
           \A s \in SocketIds : Cardinality(Deliveries(calls[i].req, s)) <= 1


-----------------------------------------------------------------------------
(* Properties of the stores taken together *)

StatusWrites(d, i) ==
    {j \in 1..(i - 1) : /\ calls[j].op = "updateDriverStatus" /\ calls[j].drv = d
                         /\ calls[j].wrote /\ calls[j].arg # Undefined}

-----------------------------------------------------------------------------
(* Properties of the payments *)

\* the handler invocations that credited the wallet for payment_ref p
Credits(p) == {i \in CallIds : calls[i].payment_ref = p /\ calls[i].credited}

\* C34: for each payment_ref the wallet is credited at most once, however
\* many callbacks and polls are processed for it and however their store
\* calls interleave.
C34_CreditedAtMostOnce ==
    \A p \in PayRefs : Cardinality(Credits(p)) <= 1

\* the sum of the net amounts of a set of calls
RECURSIVE NetSum(_)
NetSum(S) ==
    IF S = {} THEN 0
    ELSE LET i == CHOOSE x \in S : TRUE IN calls[i].net + NetSum(S \ {i})

\* C35: when the callbacks of two different transactions of one user have
\* both credited the wallet, the balance is the initial balance plus both
\* net amounts.
C35_NoLostCredit ==
    \A i, j \in CallIds :
        (/\ i # j /\ calls[i].credited /\ calls[j].credited
         /\ calls[i].payment_ref # calls[j].payment_ref
         /\ calls[i].user = calls[j].user)
        => wallets[calls[i].user].balance = NetSum({i, j})


\* no payment handler is in flight
Quiescent == \A i \in CallIds : calls[i].pc = "done"

\* C36: whenever no handler is in flight, a transaction is stored as
\* completed (successful in index.js) exactly when the wallet was credited
\* for it once; and a step never changes the status of a transaction that
\* is already completed or failed.
C36_CompletedIffCredited ==
    [][/\ Quiescent' =>
            \A p \in PayRefs :
                transactions'[p].status = DoneStatus
                   <=> Cardinality({i \in 1..Len(calls') :
                          calls'[i].payment_ref = p /\ calls'[i].credited}) = 1
       /\ \A p \in PayRefs :
            Processed(transactions[p].status) =>
               transactions'[p].status = transactions[p].status]_vars


\* the payload p lacks a required field or is not signed with the service key
InvalidCallback(p) ==
    \/ p.payment_ref = Undefined
    \/ p.status = Undefined
    \/ p.sign # Md5(DataToSign(p.amount, p.status, p.payment_ref, ServiceKey))

\* C37: a callback that lacks payment_ref or status, or whose sign is not
\* the signature of its fields under the service key, is answered 400 or
\* 401 at once and changes no transaction and no wallet.
C37_InvalidCallbackRejected ==
    [][\A i \in NewCalls :
          (calls'[i].op = "callback" /\ InvalidCallback(calls'[i].payload))
          => /\ calls'[i].pc = "done"
             /\ calls'[i].http \in {"400", "401"}
             /\ transactions' = transactions
             /\ wallets' = wallets]_vars

\* a SUCCESSFUL callback for the pending transaction p1 signed with
\* another key was answered 401, one without status was answered 400, and
\* p1 is still pending with the wallet empty
C37_Witness ==
    \E i, j \in CallIds :
        /\ calls[i].op = "callback" /\ calls[i].payment_ref = "p1"
        /\ calls[i].payload.status = "SUCCESSFUL"
        /\ calls[i].payload.sign = SignOf("forged", 5, "SUCCESSFUL", "p1")
        /\ calls[i].pc = "done" /\ calls[i].http = "401"
        /\ calls[j].op = "callback" /\ calls[j].payload.status = Undefined
        /\ calls[j].pc = "done" /\ calls[j].http = "400"
        /\ transactions["p1"].status = "pending"
        /\ wallets["u1"].balance = 0

====
